---- MODULE Spec2Model ----
(***************************************************************************)
(* GlobalProtect authentication (auth-globalprotect.c) as a state machine. *)
(*                                                                         *)
(* Two specifications share the variables:                                 *)
(*   Spec       gpst_obtain_cookie / gpst_login: the login loop, with the  *)
(*              server's responses, the user's form input and the token    *)
(*              generator as nondeterministic inputs;                      *)
(*   SpecParse  parse_login_xml applied to login responses drawn from a    *)
(*              bounded set of argument lists.                             *)
(* C strings are TLA+ strings; a NULL pointer is the value NULL, which is  *)
(* outside every set of strings the inputs are drawn from.  Allocation     *)
(* failure (-ENOMEM) is not modelled.                                      *)
(***************************************************************************)
EXTENDS Integers, Sequences, FiniteSets, TLC

VARIABLES
    pc,            \* position in gpst_login (or in parse_login_xml under SpecParse)
    frame,         \* position in gpst_obtain_cookie: the call of gpst_login that runs
    portal,        \* gpst_login: int portal (1 portal mode, 0 gateway mode)
    blind_retry,   \* gpst_login: int blind_retry
    result,        \* int result of the function that is running
    ctx,           \* struct login_context
    vpninfo,       \* the fields of struct openconnect_info the code touches
    xml_buf,       \* the response the last request produced (or the document under parse)
    parsed,        \* parse_login_xml: its locals when it returned
    hist           \* history of the run: what the last step was, counters

vars == <<pc, frame, portal, blind_retry, result, ctx, vpninfo, xml_buf, parsed, hist>>

NULL == "<NULL>"

(* errno values, <errno.h> *)
EPERM == 1
EIO == 5
EAGAIN == 11
EACCES == 13
EEXIST == 17
EINVAL == 22

(* result of process_auth_form when the user cancels *)
OC_FORM_RESULT_CANCELLED == 1

(***************************************************************************)
(* String helpers of the library                                           *)
(***************************************************************************)
Printable ==
    " !\"#$%&'()*+,-./0123456789:;<=>?@ABCDEFGHIJKLMNOPQRSTUVWXYZ[\\]^_\tabcdefghijklmnopqrstuvwxyz{|}~"

CharAt(s, i) == SubSeq(s, i, i)

HexDigits == "0123456789abcdef"

(* isxdigit and the value of a hexadecimal digit *)
HexTable ==
    [c \in {CharAt(HexDigits, i) : i \in 1..16} \cup {CharAt("ABCDEF", i) : i \in 1..6} |->
        IF \E i \in 1..16 : CharAt(HexDigits, i) = c
        THEN (CHOOSE i \in 1..16 : CharAt(HexDigits, i) = c) - 1
        ELSE (CHOOSE i \in 1..6 : CharAt("ABCDEF", i) = c) + 9]

IsXDigit(c) == c \in DOMAIN HexTable

HexVal(c) == HexTable[c]

(* the character with ASCII code n (printable range; the backquote, code 96, cannot
   be written in a string and a tab holds its place) *)
Chr(n) == IF n >= 32 /\ n <= 126 THEN CharAt(Printable, n - 31) ELSE "?"

OrdTable == [c \in {CharAt(Printable, i) : i \in 1..Len(Printable)} |->
                31 + (CHOOSE i \in 1..Len(Printable) : CharAt(Printable, i) = c)]

Ord(c) == IF c \in DOMAIN OrdTable THEN OrdTable[c] ELSE 63

RECURSIVE urldecode_from(_, _)
urldecode_from(s, p) ==
    IF p > Len(s) THEN ""
    ELSE IF CharAt(s, p) = "+" THEN " " \o urldecode_from(s, p + 1)
    ELSE IF /\ CharAt(s, p) = "%"
            /\ p + 2 <= Len(s)
            /\ IsXDigit(CharAt(s, p + 1))
            /\ IsXDigit(CharAt(s, p + 2))
         THEN Chr(16 * HexVal(CharAt(s, p + 1)) + HexVal(CharAt(s, p + 2)))
                  \o urldecode_from(s, p + 3)
    ELSE CharAt(s, p) \o urldecode_from(s, p + 1)

urldecode_inplace(s) == urldecode_from(s, 1)

(* the characters buf_append_urlencoded copies as they are *)
Unreserved ==
    {CharAt("0123456789ABCDEFGHIJKLMNOPQRSTUVWXYZabcdefghijklmnopqrstuvwxyz", i) : i \in 1..62}
        \cup {"-", "_", ".", "~"}

IsUnreserved(c) == c \in Unreserved

RECURSIVE urlencode_from(_, _)
urlencode_from(s, p) ==
    IF p > Len(s) THEN ""
    ELSE (IF IsUnreserved(CharAt(s, p)) THEN CharAt(s, p)
          ELSE "%" \o CharAt(HexDigits, (Ord(CharAt(s, p)) \div 16) + 1)
                   \o CharAt(HexDigits, (Ord(CharAt(s, p)) % 16) + 1))
         \o urlencode_from(s, p + 1)

buf_append_urlencoded(s) == IF s = NULL THEN "" ELSE urlencode_from(s, 1)

(* append_opt(buf, opt, name): "&" between entries, then opt=name, both encoded *)
append_opt(buf, opt, name) ==
    (IF buf # "" /\ CharAt(buf, Len(buf)) \notin {"?", "&"} THEN buf \o "&" ELSE buf)
        \o buf_append_urlencoded(opt) \o "=" \o buf_append_urlencoded(name)

(***************************************************************************)
(* parse_login_xml: the positional schema and the validation loop          *)
(***************************************************************************)
Arg(opt, save, show, warn_missing, err_missing, unknown, check) ==
    [opt |-> opt, save |-> save, show |-> show, warn_missing |-> warn_missing,
     err_missing |-> err_missing, unknown |-> unknown, check |-> check]

(* gp_login_args[i] of the C table is gp_login_args[i + 1] here *)
gp_login_args == <<
    Arg(NULL, 0, 0, 0, 0, 1, NULL),
    Arg("authcookie", 1, 0, 0, 1, 0, NULL),
    Arg("persistent-cookie", 0, 0, 1, 0, 0, NULL),
    Arg("portal", 1, 0, 1, 0, 0, NULL),
    Arg("user", 1, 0, 0, 1, 0, NULL),
    Arg("authentication-source", 0, 1, 0, 0, 0, NULL),
    Arg("configuration", 0, 0, 1, 0, 0, NULL),
    Arg("domain", 1, 0, 1, 0, 0, NULL),
    Arg(NULL, 0, 0, 0, 0, 1, NULL),
    Arg(NULL, 0, 0, 0, 0, 1, NULL),
    Arg(NULL, 0, 0, 0, 0, 1, NULL),
    Arg(NULL, 0, 0, 0, 0, 1, NULL),
    Arg("connection-type", 0, 0, 0, 1, 0, "tunnel"),
    Arg("password-expiration-days", 0, 1, 0, 0, 0, NULL),
    Arg("clientVer", 0, 0, 0, 1, 0, "4100"),
    Arg("preferred-ip", 1, 0, 0, 0, 0, NULL),
    Arg("portal-userauthcookie", 0, 1, 0, 0, 0, NULL),
    Arg("portal-prelogonuserauthcookie", 0, 1, 0, 0, 0, NULL),
    Arg("preferred-ipv6", 1, 0, 0, 0, 0, NULL),
    Arg("usually-equals-4", 0, 1, 0, 0, 0, NULL),
    Arg("usually-equals-unknown", 0, 1, 0, 0, 0, NULL) >>

gp_login_nargs == Len(gp_login_args)

(* an XML node of the argument list: an element with a name and a content, or text *)
Element(name, content) == [type |-> "element", name |-> name, content |-> content]
TextNode == [type |-> "text", name |-> "text", content |-> " "]

(* while (xml_node && xml_node->type != XML_ELEMENT_NODE) xml_node = xml_node->next *)
RECURSIVE SkipNonElements(_)
SkipNonElements(nodes) ==
    IF nodes # <<>> /\ Head(nodes).type # "element" THEN SkipNonElements(Tail(nodes))
    ELSE nodes

(* the loop condition: more known arguments OR more XML tags *)
LoopCondNoSchema(argn, nodes) == nodes # <<>>
LoopCond(argn, nodes) == argn < gp_login_nargs \/ nodes # <<>>

(* the schema entry that governs position argn: entry 0 is reused past the end *)
ArgIndexLast(argn) == IF argn < gp_login_nargs THEN argn ELSE gp_login_nargs - 1
ArgIndex(argn) == IF argn < gp_login_nargs THEN argn ELSE 0

(* values that stand for "no value" *)
IsAbsent(value) == value = "" \/ value = "(null)" \/ value = "-1"

(* the value the loop works with for an <argument> node under entry arg *)
ArgValueRaw(arg, content) == IF IsAbsent(content) THEN NULL ELSE content
ArgValue(arg, content) ==
    IF IsAbsent(content) THEN NULL
    ELSE IF arg.save = 1 THEN urldecode_inplace(content)
    ELSE content

(* the if/else-if chain on (arg, value): what it adds to unknown_args, fatal_args *)
ClassifyCheckNotFatal(arg, value) ==
    IF arg.unknown = 1 /\ value # NULL THEN [unknown |-> 1, fatal |-> 0]
    ELSE IF arg.check # NULL /\ (value = NULL \/ value # arg.check)
         THEN [unknown |-> 1, fatal |-> 0]
    ELSE IF (arg.err_missing = 1 \/ arg.warn_missing = 1) /\ value = NULL
         THEN [unknown |-> 1, fatal |-> arg.err_missing]
    ELSE [unknown |-> 0, fatal |-> 0]
Classify(arg, value) ==
    IF arg.unknown = 1 /\ value # NULL THEN [unknown |-> 1, fatal |-> 0]
    ELSE IF arg.check # NULL /\ (value = NULL \/ value # arg.check)
         THEN [unknown |-> 1, fatal |-> arg.err_missing]
    ELSE IF (arg.err_missing = 1 \/ arg.warn_missing = 1) /\ value = NULL
         THEN [unknown |-> 1, fatal |-> arg.err_missing]
    ELSE [unknown |-> 0, fatal |-> 0]

(* the locals of parse_login_xml; visits records each iteration of the loop *)
LoginLocals == [unknown_args |-> 0, fatal_args |-> 0, cookie |-> "", visits |-> <<>>,
                err_out |-> FALSE]

RECURSIVE login_loop(_, _, _)
login_loop(nodes0, argn, st) ==
    IF ~LoopCond(argn, nodes0) THEN st
    ELSE LET nodes == SkipNonElements(nodes0)
             idx == ArgIndex(argn)
             arg == gp_login_args[idx + 1]
         IN  IF nodes # <<>> /\ Head(nodes).name # "argument"
             THEN [st EXCEPT !.err_out = TRUE]
             ELSE LET value == IF nodes = <<>> THEN NULL
                               ELSE ArgValue(arg, Head(nodes).content)
                      rest == IF nodes = <<>> THEN <<>> ELSE Tail(nodes)
                      c == Classify(arg, value)
                  IN  login_loop(rest, argn + 1,
                        [unknown_args |-> st.unknown_args + c.unknown,
                         fatal_args |-> st.fatal_args + c.fatal,
                         cookie |-> IF value # NULL /\ arg.save = 1
                                    THEN append_opt(st.cookie, arg.opt, value)
                                    ELSE st.cookie,
                         visits |-> Append(st.visits,
                                     [argn |-> argn, idx |-> idx, value |-> value,
                                      node |-> nodes # <<>>,
                                      unknown |-> c.unknown, fatal |-> c.fatal]),
                         err_out |-> FALSE])

(* what follows the loop: the result and the cookie left in vpninfo->cookie *)
LoginOutcomeUnknownFatal(st, oldcookie, localname) ==
    LET cookie == append_opt(st.cookie, "computer", localname)
    IN  IF st.unknown_args > 0 THEN [result |-> -EPERM, cookie |-> oldcookie]
        ELSE [result |-> 0, cookie |-> cookie]
LoginOutcome(st, oldcookie, localname) ==
    LET cookie == append_opt(st.cookie, "computer", localname)
    IN  IF st.fatal_args > 0 THEN [result |-> -EPERM, cookie |-> oldcookie]
        ELSE [result |-> 0, cookie |-> cookie]

(* a login response document: the root's name, the name of the root's first element
   child (NULL when it has none) and that child's children *)
LoginDoc(root, child, nodes) == [root |-> root, child |-> child, nodes |-> nodes]

parse_login_xml(doc, oldcookie, localname) ==
    IF doc.root # "jnlp" \/ doc.child # "application-desc"
    THEN [result |-> -EINVAL, cookie |-> oldcookie, locals |-> LoginLocals]
    ELSE LET st == login_loop(doc.nodes, 0, LoginLocals)
         IN  IF st.err_out
             THEN [result |-> -EINVAL, cookie |-> oldcookie, locals |-> st]
             ELSE LET o == LoginOutcome(st, oldcookie, localname)
                  IN  [result |-> o.result, cookie |-> o.cookie, locals |-> st]


(***************************************************************************)
(* State shared by the two specifications                                  *)
(***************************************************************************)
(* a NULL struct oc_auth_form pointer *)
NoForm == [id |-> 0, message |-> NULL, auth_id |-> NULL, action |-> NULL, opts |-> <<>>]

(* struct login_context ctx = { NULL, NULL, NULL, NULL, NULL } *)
InitCtx == [username |-> NULL, alt_secret |-> NULL, portal_userauthcookie |-> NULL,
            portal_prelogonuserauthcookie |-> NULL, form |-> NoForm]

(* the caller's configuration: the path, the old cookie, whether can_gen_tokencode
   returns 0, whether a write_new_config callback is set, the HIP interval and the
   gateway chosen beforehand *)
Config(urlpath, tokencode_rc, write_new_config, trojan_interval, authgroup) ==
    [urlpath |-> urlpath, tokencode_rc |-> tokencode_rc,
     write_new_config |-> write_new_config, trojan_interval |-> trojan_interval,
     authgroup |-> authgroup]

InitVpninfo(cfg, cookie) ==
    [urlpath |-> cfg.urlpath, cookie |-> cookie, localname |-> "host-1",
     hostname |-> "vpn.example.com", platname |-> "linux-64",
     authgroup |-> cfg.authgroup, redirect_url |-> NULL,
     trojan_interval |-> cfg.trojan_interval, token_bypassed |-> 0,
     tokencode_rc |-> cfg.tokencode_rc, write_new_config |-> cfg.write_new_config,
     new_config |-> NULL]

NoResponse == [kind |-> "none"]

NoParse == [result |-> 0, cookie |-> NULL, locals |-> LoginLocals]

NoRequest == [kind |-> "none", path |-> NULL, form |-> NoForm, inputStr |-> NULL,
              blind |-> FALSE]

(* history of the run, kept for the properties: the last step; the requests sent and
   the last of them; whether the submission at hand is a replay without a prompt and
   how many replays there were; the modes and results of the calls of gpst_login;
   whether the "neither a portal nor a gateway" message was logged; the handoff that
   the last portal success of the running call started (replay or relogin, the
   prelogin and prompt steps since, the form the portal accepted), and the handoff
   the last submission ended; ctx->form, portal, blind_retry and ctx->username as
   they were before the last request; whether a portal login succeeded in this run *)
NoHandoff == [kind |-> "none", steps |-> <<>>, form |-> NoForm]

InitHist == [ev |-> "init", nreq |-> 0, req |-> NoRequest, blind |-> FALSE,
             nBlind |-> 0, calls |-> <<>>, results |-> <<>>, neither |-> FALSE,
             handoff |-> NoHandoff, seen |-> NoHandoff,
             before |-> [form |-> NoForm, portal |-> 0, blind_retry |-> 0,
                         username |-> NULL],
             portalOk |-> FALSE]

(***************************************************************************)
(* gpst_obtain_cookie: the configured path                                 *)
(***************************************************************************)
(* strrchr(s, ':'): the index of the last ':' of s, 0 when there is none *)
LastColon(s) ==
    IF \E i \in 1..Len(s) : CharAt(s, i) = ":"
    THEN CHOOSE i \in 1..Len(s) :
            CharAt(s, i) = ":" /\ \A j \in i + 1 .. Len(s) : CharAt(s, j) # ":"
    ELSE 0

(* the path and ctx.alt_secret after the ":field_name" suffix is cut off *)
SplitAltSecret(urlpath) ==
    IF urlpath # NULL /\ LastColon(urlpath) # 0
    THEN [urlpath |-> SubSeq(urlpath, 1, LastColon(urlpath) - 1),
          alt_secret |-> SubSeq(urlpath, LastColon(urlpath) + 1, Len(urlpath))]
    ELSE [urlpath |-> urlpath, alt_secret |-> NULL]

(* !strncmp(s, prefix, strlen(prefix)) *)
HasPrefix(s, prefix) == Len(s) >= Len(prefix) /\ SubSeq(s, 1, Len(prefix)) = prefix

IsPortalPath(urlpath) ==
    urlpath # NULL /\ (urlpath = "portal" \/ HasPrefix(urlpath, "global-protect"))

IsGatewayPath(urlpath) ==
    urlpath # NULL /\ (urlpath = "gateway" \/ HasPrefix(urlpath, "ssl-vpn"))

(* the call of gpst_login that gpst_obtain_cookie makes first: its line and mode *)
FirstCall(urlpath) ==
    IF IsPortalPath(urlpath) THEN [frame |-> "L714", portal |-> 1]
    ELSE IF IsGatewayPath(urlpath) THEN [frame |-> "L717", portal |-> 0]
    ELSE [frame |-> "L720", portal |-> 1]

(* whether gpst_obtain_cookie calls gpst_login again after a call returned r *)
SecondCallOnAnyError(fr, r) == fr = "L720" /\ r < 0
SecondCall(fr, r) == fr = "L720" /\ r = -EEXIST

(***************************************************************************)
(* gpst_login: the prelogin request                                        *)
(***************************************************************************)
gpst_os_name(platname) ==
    IF platname \in {"mac-intel", "apple-ios"} THEN "Mac"
    ELSE IF platname \in {"linux-64", "linux", "android"} THEN "Linux"
    ELSE "Windows"

(* strstr(s, ".esp"): the index of the first ".esp" of s, 0 when there is none *)
FirstEsp(s) ==
    IF \E i \in 1 .. Len(s) - 3 : SubSeq(s, i, i + 3) = ".esp"
    THEN CHOOSE i \in 1 .. Len(s) - 3 :
            SubSeq(s, i, i + 3) = ".esp" /\ \A j \in 1 .. i - 1 : SubSeq(s, j, j + 3) # ".esp"
    ELSE 0

(* keep_urlpath: the path ends with .esp, possibly followed by a query string *)
KeepUrlpath(urlpath) ==
    /\ urlpath # NULL
    /\ FirstEsp(urlpath) # 0
    /\ \/ FirstEsp(urlpath) + 4 = Len(urlpath) + 1
       \/ CharAt(urlpath, FirstEsp(urlpath) + 4) = "?"

PreloginPath(urlpath, mode, platname) ==
    IF KeepUrlpath(urlpath) THEN urlpath
    ELSE (IF mode = 1 THEN "global-protect" ELSE "ssl-vpn")
            \o "/prelogin.esp?tmp=tmp&clientVer=4100&clientos=" \o gpst_os_name(platname)

SubmitPath(mode) == IF mode = 1 THEN "global-protect/getconfig.esp" ELSE "ssl-vpn/login.esp"

(***************************************************************************)
(* parse_prelogin_xml                                                      *)
(***************************************************************************)
(* a prelogin response document: its root and the children the parser reads *)
PreloginDoc(root, saml_request, saml_method, prompt, username_label, password_label) ==
    [root |-> root, saml_request |-> saml_request, saml_method |-> saml_method,
     prompt |-> prompt, username_label |-> username_label,
     password_label |-> password_label]

Base64Alphabet ==
    {CharAt("ABCDEFGHIJKLMNOPQRSTUVWXYZabcdefghijklmnopqrstuvwxyz0123456789+/=", i) : i \in 1..65}

(* openconnect_base64_decode gives len >= 0 *)
Base64Ok(text) ==
    /\ Len(text) % 4 = 0
    /\ \A i \in 1..Len(text) : CharAt(text, i) \in Base64Alphabet

(* a SAML marker is present: saml_method || saml_path *)
HasSamlMarker(doc) == doc.saml_method # NULL \/ doc.saml_request # NULL

(* the session holds something that lets a SAML login continue *)
SamlContinuesOnlyCookie(c) == c.portal_userauthcookie # NULL
SamlContinues(c) ==
    \/ c.portal_userauthcookie # NULL
    \/ c.portal_prelogonuserauthcookie # NULL
    \/ c.alt_secret # NULL

(* !can_gen_tokencode(vpninfo, form, opt) *)
NotCanGenTokencode(v) == v.tokencode_rc = 0

FormOpt(name, label, type, value) ==
    [name |-> name, label |-> label, type |-> type, value |-> value]

(* the form parse_prelogin_xml builds; id tells one allocated form from another *)
PreloginFormAlwaysText(c, doc, v, id) ==
    [id |-> id,
     message |-> IF doc.prompt # NULL THEN doc.prompt
                 ELSE "Please enter your username and password",
     auth_id |-> "_login",
     action |-> NULL,
     opts |-> <<
        FormOpt("user",
                (IF doc.username_label # NULL THEN doc.username_label ELSE "Username") \o ": ",
                "TEXT", NULL),
        FormOpt(IF c.alt_secret # NULL THEN c.alt_secret ELSE "passwd",
                (IF c.alt_secret # NULL THEN c.alt_secret
                 ELSE IF doc.password_label # NULL THEN doc.password_label
                 ELSE "Password") \o ": ",
                IF /\ NotCanGenTokencode(v)
                   /\ c.alt_secret = NULL
                   /\ doc.password_label # NULL
                   /\ doc.password_label # "Password"
                THEN "TOKEN" ELSE "PASSWORD",
                NULL) >>]
PreloginForm(c, doc, v, id) ==
    [id |-> id,
     message |-> IF doc.prompt # NULL THEN doc.prompt
                 ELSE "Please enter your username and password",
     auth_id |-> "_login",
     action |-> NULL,
     opts |-> <<
        FormOpt("user",
                (IF doc.username_label # NULL THEN doc.username_label ELSE "Username") \o ": ",
                IF c.username = NULL THEN "TEXT" ELSE "HIDDEN",
                c.username),
        FormOpt(IF c.alt_secret # NULL THEN c.alt_secret ELSE "passwd",
                (IF c.alt_secret # NULL THEN c.alt_secret
                 ELSE IF doc.password_label # NULL THEN doc.password_label
                 ELSE "Password") \o ": ",
                IF /\ NotCanGenTokencode(v)
                   /\ c.alt_secret = NULL
                   /\ doc.password_label # NULL
                   /\ doc.password_label # "Password"
                THEN "TOKEN" ELSE "PASSWORD",
                NULL) >>]

parse_prelogin_xml(c, doc, v, id) ==
    IF doc.root # "prelogin-response" THEN [result |-> 0, ctx |-> c]
    ELSE IF doc.saml_request # NULL /\ ~Base64Ok(doc.saml_request)
         THEN [result |-> -EINVAL, ctx |-> c]
    ELSE IF HasSamlMarker(doc) /\ ~SamlContinues(c)
         THEN [result |-> -EPERM, ctx |-> c]
    ELSE [result |-> 0,
          ctx |-> [c EXCEPT !.form = PreloginForm(c, doc, v, id), !.username = NULL]]

(***************************************************************************)
(* challenge_cb                                                            *)
(***************************************************************************)
challenge_cb_keeps_value(c, prompt, inputStr, v) ==
    [result |-> -EAGAIN,
     ctx |-> [c EXCEPT
        !.form.message = prompt,
        !.form.action = inputStr,
        !.form.auth_id = "_challenge",
        !.form.opts[1].type = "HIDDEN",
        !.form.opts[2].label = "Challenge: ",
        !.form.opts[2].type =
            IF NotCanGenTokencode(v) /\ c.form.opts[2].type = "PASSWORD"
            THEN "TOKEN" ELSE "PASSWORD"]]
challenge_cb_keeps_auth_id(c, prompt, inputStr, v) ==
    [result |-> -EAGAIN,
     ctx |-> [c EXCEPT
        !.form.message = prompt,
        !.form.action = inputStr,
        !.form.opts[1].type = "HIDDEN",
        !.form.opts[2].value = NULL,
        !.form.opts[2].label = "Challenge: ",
        !.form.opts[2].type =
            IF NotCanGenTokencode(v) /\ c.form.opts[2].type = "PASSWORD"
            THEN "TOKEN" ELSE "PASSWORD"]]
challenge_cb(c, prompt, inputStr, v) ==
    [result |-> -EAGAIN,
     ctx |-> [c EXCEPT
        !.form.message = prompt,
        !.form.action = inputStr,
        !.form.auth_id = "_challenge",
        !.form.opts[1].type = "HIDDEN",
        !.form.opts[2].value = NULL,
        !.form.opts[2].label = "Challenge: ",
        !.form.opts[2].type =
            IF NotCanGenTokencode(v) /\ c.form.opts[2].type = "PASSWORD"
            THEN "TOKEN" ELSE "PASSWORD"]]


(***************************************************************************)
(* parse_portal_xml                                                        *)
(***************************************************************************)
(* a portal response document: its root; the children of
   policy/gateways/external/list (NULL when there is no such subtree), each an
   element with a name attribute and the text of its description child (NULL when it
   has none); the text of hip-report-interval, portal-name and the two cookies
   (NULL when the element is missing) *)
PortalDoc(root, gateways, hip, portal_name, puac, ppuac) ==
    [root |-> root, gateways |-> gateways, hip |-> hip, portal_name |-> portal_name,
     puac |-> puac, ppuac |-> ppuac]

GatewayNode(elem, name, label) == [elem |-> elem, name |-> name, label |-> label]

NoGateways == << GatewayNode("none", NULL, NULL) >>

DecimalDigits == "0123456789"

DigitTable == [c \in {CharAt(DecimalDigits, i) : i \in 1..10} |->
                  (CHOOSE i \in 1..10 : CharAt(DecimalDigits, i) = c) - 1]

(* atoi on a string without sign or leading blanks: its leading digits *)
RECURSIVE AtoiFrom(_, _, _)
AtoiFrom(text, p, acc) ==
    IF p > Len(text) \/ CharAt(text, p) \notin DOMAIN DigitTable THEN acc
    ELSE AtoiFrom(text, p + 1, 10 * acc + DigitTable[CharAt(text, p)])

atoi(text) == AtoiFrom(text, 1, 0)

(* the HIP report interval after the hip-collection child was read *)
HipIntervalAlwaysPortal(old, hip) ==
    IF hip = NULL THEN old ELSE atoi(hip) - 60
HipInterval(old, hip) ==
    IF hip = NULL THEN old
    ELSE IF old # 0 THEN old
    ELSE atoi(hip) - 60

(* a cookie field of ctx after the element was read: replaced when the element is
   there, and dropped when its text is blank or "empty" *)
PortalCookie(old, text) ==
    IF text = NULL THEN old
    ELSE IF text = "" \/ text = "empty" THEN NULL
    ELSE text

(* the entry elements of the list, in document order, as choices *)
GatewayChoicesAll(nodes) ==
    [i \in 1..Len(nodes) |-> [name |-> nodes[i].name, label |-> nodes[i].label]]
RECURSIVE GatewayChoices(_)
GatewayChoices(nodes) ==
    IF nodes = <<>> THEN <<>>
    ELSE IF Head(nodes).elem = "entry"
         THEN <<[name |-> Head(nodes).name, label |-> Head(nodes).label]>>
                  \o GatewayChoices(Tail(nodes))
    ELSE GatewayChoices(Tail(nodes))

(* the host entries of the generated GPPortal document *)
RECURSIVE GatewayHostEntries(_)
GatewayHostEntries(choices) ==
    IF choices = <<>> THEN <<>>
    ELSE (IF Head(choices).label # NULL
          THEN <<[HostName |-> Head(choices).label,
                  HostAddress |-> Head(choices).name \o "/ssl-vpn"]>>
          ELSE <<>>) \o GatewayHostEntries(Tail(choices))

NewConfig(v, portal_name, choices) ==
    (IF portal_name # NULL
     THEN <<[HostName |-> portal_name, HostAddress |-> v.hostname \o "/global-protect"]>>
     ELSE <<>>) \o GatewayHostEntries(choices)

(* the gateway selection form *)
PortalForm(choices) ==
    [id |-> 0, message |-> "Please select GlobalProtect gateway.", auth_id |-> "_portal",
     action |-> NULL,
     opts |-> << [name |-> "gateway", label |-> "GATEWAY:", type |-> "SELECT",
                  value |-> NULL, choices |-> choices] >>]

(* what the collaborators answer during one call: process_auth_form (its result and
   the choice the user makes), write_new_config and handle_redirect *)
PortalExt(form_result, sel, write_result, redirect_result) ==
    [form_result |-> form_result, sel |-> sel, write_result |-> write_result,
     redirect_result |-> redirect_result]

(* the result, with ctx and vpninfo as the call leaves them; form is the selection
   form when it was built, and prompted, wrote, redirected tell which collaborators
   were called *)
PortalReturn(res, c, v, form, prompted, wrote, redirected) ==
    [result |-> res, ctx |-> c, vpninfo |-> v, form |-> form,
     prompted |-> prompted, wrote |-> wrote, redirected |-> redirected]

(* !opt->nr_choices: the list held no entry element *)
NoChoicesNever(choices) == FALSE
NoChoices(choices) == Len(choices) = 0

(* the test on the result of process_auth_form for the selection form *)
SelectionAbortsOnError(r) == r < 0
SelectionAborts(r) == r = OC_FORM_RESULT_CANCELLED \/ r < 0

parse_portal_xml(c0, v0, doc, ext) ==
    LET isPolicy == doc.root = "policy"
        gateways == IF isPolicy THEN doc.gateways ELSE NoGateways
        c == IF isPolicy
             THEN [c0 EXCEPT
                     !.portal_userauthcookie = PortalCookie(@, doc.puac),
                     !.portal_prelogonuserauthcookie = PortalCookie(@, doc.ppuac)]
             ELSE c0
        v1 == IF isPolicy
              THEN [v0 EXCEPT !.trojan_interval = HipInterval(@, doc.hip)]
              ELSE v0
        choices == GatewayChoices(gateways)
        v2 == IF v1.authgroup = NULL /\ Len(choices) > 0
              THEN [v1 EXCEPT !.authgroup = choices[1].name] ELSE v1
        form == PortalForm(choices)
        wrote == v2.write_new_config = 1
        v3 == IF wrote
              THEN [v2 EXCEPT !.new_config = NewConfig(v2, doc.portal_name, choices)]
              ELSE v2
        v4 == IF ext.sel \in 1..Len(choices)
              THEN [v3 EXCEPT !.authgroup = choices[ext.sel].name] ELSE v3
        v5 == [v4 EXCEPT !.redirect_url = "https://" \o v4.authgroup]
    IN  IF gateways = NoGateways
        THEN PortalReturn(-EINVAL, c, v1, NoForm, FALSE, FALSE, FALSE)
        ELSE IF NoChoices(choices)
        THEN PortalReturn(-EINVAL, c, v1, form, FALSE, FALSE, FALSE)
        ELSE IF wrote /\ ext.write_result # 0
        THEN PortalReturn(ext.write_result, c, v3, form, FALSE, TRUE, FALSE)
        ELSE IF SelectionAborts(ext.form_result)
        THEN PortalReturn(ext.form_result, c, v3, form, TRUE, wrote, FALSE)
        ELSE IF ext.redirect_result # 0
        THEN PortalReturn(ext.redirect_result, c, v5, form, TRUE, wrote, TRUE)
        ELSE PortalReturn(0, c, [v5 EXCEPT !.hostname = v4.authgroup], form,
                          TRUE, wrote, TRUE)


(***************************************************************************)
(* gpst_login: the response classifier and the branches after a submission *)
(***************************************************************************)
Transport(err) == [kind |-> "transport", err |-> err]
ServerError(err) == [kind |-> "error", err |-> err]
Challenge(prompt, inputStr) == [kind |-> "challenge", prompt |-> prompt, inputStr |-> inputStr]
Xml(doc, ext) == [kind |-> "xml", doc |-> doc, ext |-> ext]

(* gpst_xml_or_error(vpninfo, response, xml_cb, challenge_cb, cb_data): an error the
   server reports becomes its errno, a challenge goes to challenge_cb (an invalid
   response when there is none), an XML document goes to xml_cb; xml and challenge
   are what the callbacks return for this response *)
gpst_xml_or_error(resp, xml, challenge, has_challenge_cb) ==
    IF resp.kind = "error" THEN resp.err
    ELSE IF resp.kind = "challenge"
         THEN (IF has_challenge_cb THEN challenge ELSE -EINVAL)
    ELSE xml

(* nuke_opt_values: the values the user entered are dropped, hidden ones stay *)
nuke_opt_values(form) ==
    [form EXCEPT !.opts = [i \in DOMAIN form.opts |->
        IF form.opts[i].type = "HIDDEN" THEN form.opts[i]
        ELSE [form.opts[i] EXCEPT !.value = NULL]]]

(* the test that lets the portal's form be replayed on the gateway *)
BlindRetryCond(c) ==
    \/ c.portal_userauthcookie # NULL
    \/ c.portal_prelogonuserauthcookie # NULL
    \/ (c.form.auth_id # "_challenge" /\ c.alt_secret = NULL)

(* the mode after a portal login succeeded *)
ModeAfterPortalStays(mode) == mode
ModeAfterPortal(mode) == 0

(* where -EACCES leads: the same form again, unless the flag of a blind retry is set *)
AfterUnauthorizedFails(blind) ==
    IF blind = 0 THEN [pc |-> "got_form", blind_retry |-> 0]
    ELSE [pc |-> "ret", blind_retry |-> 0]
AfterUnauthorized(blind) ==
    IF blind = 0 THEN [pc |-> "got_form", blind_retry |-> 0]
    ELSE [pc |-> "prelogin", blind_retry |-> 0]

(* where a successful portal login leads *)
AfterPortalSuccessPrompts(c) ==
    IF BlindRetryCond(c) THEN [pc |-> "got_form", blind_retry |-> 1]
    ELSE [pc |-> "prelogin", blind_retry |-> 0]
AfterPortalSuccess(c) ==
    IF BlindRetryCond(c) THEN [pc |-> "replay_form", blind_retry |-> 1]
    ELSE [pc |-> "prelogin", blind_retry |-> 0]

(* where a result leads that is neither -EACCES nor a portal success: a challenge
   goes back to the form, everything else leaves the loop *)
AfterAnswerLoops(res) == "got_form"
AfterAnswer(res) == IF res = -EAGAIN THEN "got_form" ELSE "ret"

(* the branches after the response to a submission was classified: res is the
   result, c is ctx after the callbacks, mode and blind are portal and blind_retry *)
AfterSubmit(res, c, mode, blind) ==
    IF res = -EACCES
    THEN LET a == AfterUnauthorized(blind)
         IN  [pc |-> a.pc, portal |-> mode, blind_retry |-> a.blind_retry,
              ctx |-> [c EXCEPT !.form = nuke_opt_values(c.form)]]
    ELSE LET c1 == IF c.username = NULL
                   THEN [c EXCEPT !.username = c.form.opts[1].value] ELSE c
         IN  IF mode = 1 /\ res = 0
             THEN LET a == AfterPortalSuccess(c1)
                  IN  [pc |-> a.pc, portal |-> ModeAfterPortal(mode),
                       blind_retry |-> IF a.blind_retry = 1 THEN 1 ELSE blind, ctx |-> c1]
             ELSE [pc |-> AfterAnswer(res), portal |-> mode, blind_retry |-> blind,
                   ctx |-> c1]


(***************************************************************************)
(* SpecParse: parse_login_xml on login responses from a bounded set        *)
(***************************************************************************)
(* surplus arguments a response may carry past the schema *)
MaxSurplus == 2
(* positions of a response that differ from the usual response *)
MaxChanged == 2

(* the usual response of a gateway: one value per schema position *)
BaseArgs == << "", "abc123", "deadbeef", "Acme", "alice", "LDAP-auth", "vsys1",
               "%28empty_domain%29", "", "", "", "", "tunnel", "-1", "4100",
               "10.0.0.5", "", "", "", "", "" >>

(* values a changed position takes: the three spellings of "no value", and a
   value that is no expected value and that URL-decoding changes *)
ArgVals == {"", "(null)", "-1", "x%2Fy"}

(* positions (1-based) whose value the bounded set varies: always-unknown (1),
   authcookie (2), persistent-cookie (3), user (5), connection-type (13),
   clientVer (15), and the surplus positions *)
ChangePositions == {1, 2, 3, 5, 13, 15} \cup (gp_login_nargs + 1 .. gp_login_nargs + MaxSurplus)

ChangesUpTo(k) == UNION { [S -> ArgVals] : S \in { T \in SUBSET ChangePositions : Cardinality(T) <= k } }

ArgList(n, ch) ==
    [i \in 1..n |-> IF i \in DOMAIN ch THEN ch[i]
                    ELSE IF i <= Len(BaseArgs) THEN BaseArgs[i] ELSE "more"]

ArgNodes(args) == [i \in 1..Len(args) |-> Element("argument", args[i])]

(* every length with fewer changes, the full and the longest list with all of them *)
ArgLists ==
    { ArgList(n, ch) : n \in 0 .. gp_login_nargs + MaxSurplus, ch \in ChangesUpTo(MaxChanged - 1) }
    \cup { ArgList(n, ch) : n \in {gp_login_nargs, gp_login_nargs + MaxSurplus},
                            ch \in ChangesUpTo(MaxChanged) }

SmallArgLists ==
    { ArgList(n, ch) : n \in {2, gp_login_nargs, gp_login_nargs + 1}, ch \in ChangesUpTo(1) }

(* positions (1-based) of the saved values a login succeeds without: portal (4),
   domain (8), preferred-ip (16), preferred-ipv6 (19); each is absent or holds a
   value with an encoded blank, "=" and "&" *)
SaveLists ==
    { ArgList(n, ch) : n \in {gp_login_nargs, gp_login_nargs + 1},
                       ch \in [{4, 8, 16, 19} -> {"", "a+b%3D%26c"}] }

DocsParse ==
    { LoginDoc("jnlp", "application-desc", ArgNodes(a)) : a \in ArgLists \cup SaveLists }
    \cup { LoginDoc("jnlp", "application-desc",
                    <<TextNode>> \o ArgNodes(a) \o <<TextNode>>) : a \in SmallArgLists }
    \cup { LoginDoc("jnlp", "application-desc",
                    ArgNodes(a) \o <<Element("other", "x")>>) : a \in SmallArgLists }
    \cup { LoginDoc("jnlp", "application-desc",
                    <<Element("other", "x")>> \o ArgNodes(a)) : a \in SmallArgLists }
    \cup { LoginDoc(r[1], r[2], ArgNodes(a)) :
             r \in {<<"html", "application-desc">>, <<"jnlp", NULL>>, <<"jnlp", "other">>},
             a \in SmallArgLists }

(* the cookie of an earlier session, which vpninfo->cookie holds before the call *)
OldCookie == "authcookie=old&computer=host-1"

InitParse ==
    /\ pc = "parse_login_xml"
    /\ frame = "none"
    /\ xml_buf \in DocsParse
    /\ vpninfo = InitVpninfo(Config(NULL, 0, 0, 0, NULL), OldCookie)
    /\ portal = 0
    /\ blind_retry = 0
    /\ result = 0
    /\ ctx = InitCtx
    /\ parsed = NoParse
    /\ hist = InitHist

(* one call of parse_login_xml(vpninfo, xml_node, cb_data) *)
ParseLoginXml ==
    /\ pc = "parse_login_xml"
    /\ LET r == parse_login_xml(xml_buf, vpninfo.cookie, vpninfo.localname)
       IN  /\ parsed' = r
           /\ result' = r.result
           /\ vpninfo' = [vpninfo EXCEPT !.cookie = r.cookie]
    /\ pc' = "parsed"
    /\ hist' = [hist EXCEPT !.ev = "parse_login_xml"]
    /\ UNCHANGED <<frame, portal, blind_retry, ctx, xml_buf>>

NextParse == ParseLoginXml

SpecParse == InitParse /\ [][NextParse]_vars


(***************************************************************************)
(* Spec: gpst_obtain_cookie and gpst_login                                 *)
(***************************************************************************)
(* HTTPS requests one run of gpst_obtain_cookie may send *)
MaxRequests == 5

Configs == {
    Config(NULL, 0, 0, 0, NULL),
    Config("vpn", -EINVAL, 1, 600, "gw2.example.com"),
    Config("portal", -EINVAL, 0, 0, NULL),
    Config("portal:portal-userauthcookie", 0, 0, 0, NULL),
    Config("global-protect/prelogin.esp", -EINVAL, 0, 0, NULL),
    Config("gateway", 0, 0, 0, NULL),
    Config("gateway:prelogin-cookie", -EINVAL, 0, 0, NULL),
    Config("ssl-vpn/login.esp?x", -EINVAL, 0, 0, NULL) }

NoExt == PortalExt(0, 0, 0, 0)

PreloginDocs == {
    PreloginDoc("prelogin-response", NULL, NULL, NULL, NULL, NULL),
    PreloginDoc("prelogin-response", NULL, NULL, "Welcome", "User ID", "Passcode"),
    PreloginDoc("prelogin-response", "aHR0cHM6Ly9pZHA=", "REDIRECT", NULL, NULL, NULL),
    PreloginDoc("prelogin-response", NULL, "POST", NULL, NULL, NULL),
    PreloginDoc("prelogin-response", "not base64!", "REDIRECT", NULL, NULL, NULL),
    PreloginDoc("html", NULL, NULL, NULL, NULL, NULL) }

PreloginResponses ==
    {Transport(-EIO), ServerError(-EEXIST), ServerError(-EINVAL)}
        \cup { Xml(d, NoExt) : d \in PreloginDocs }

LoginDocs == {
    LoginDoc("jnlp", "application-desc", ArgNodes(BaseArgs)),
    LoginDoc("jnlp", "application-desc", ArgNodes([BaseArgs EXCEPT ![15] = "4000"])),
    LoginDoc("html", NULL, <<>>) }

TwoGateways == << GatewayNode("entry", "gw1.example.com", "Gateway 1"),
                  GatewayNode("comment", NULL, NULL),
                  GatewayNode("entry", "gw2.example.com", "Gateway 2") >>

PortalDocs == {
    PortalDoc("policy", TwoGateways, "3600", "Acme", "uac1", NULL),
    PortalDoc("policy", TwoGateways, NULL, NULL, "empty", "pre1"),
    PortalDoc("policy", << GatewayNode("entry", "gw1.example.com", NULL) >>, "90", NULL, NULL, NULL),
    PortalDoc("policy", NoGateways, "3600", NULL, "uac1", NULL),
    PortalDoc("policy", << GatewayNode("comment", NULL, NULL) >>, NULL, NULL, NULL, NULL),
    PortalDoc("html", NoGateways, NULL, NULL, NULL, NULL) }

PortalExts == {
    PortalExt(0, 0, 0, 0),
    PortalExt(0, 1, 0, 0),
    PortalExt(0, 2, 0, 0),
    PortalExt(OC_FORM_RESULT_CANCELLED, 0, 0, 0),
    PortalExt(-EINVAL, 0, 0, 0),
    PortalExt(0, 1, -EIO, 0),
    PortalExt(0, 1, 0, -EINVAL) }

SubmitResponses(mode) ==
    {Transport(-EIO), ServerError(-EACCES), ServerError(-EEXIST), ServerError(-EINVAL),
     Challenge("Enter the code", "tok1")}
        \cup (IF mode = 1
              THEN { Xml(d, e) : d \in PortalDocs, e \in PortalExts }
              ELSE { Xml(d, NoExt) : d \in LoginDocs })

FormResults == {0, OC_FORM_RESULT_CANCELLED, -EINVAL}

Init ==
    /\ pc = "obtain_cookie"
    /\ frame = "none"
    /\ portal = 0
    /\ blind_retry = 0
    /\ result = 0
    /\ ctx = InitCtx
    /\ vpninfo \in { InitVpninfo(cfg, NULL) : cfg \in Configs }
    /\ xml_buf = NoResponse
    /\ parsed = NoParse
    /\ hist = InitHist

(* gpst_obtain_cookie up to its first call of gpst_login *)
ObtainCookie ==
    /\ pc = "obtain_cookie"
    /\ LET sp == SplitAltSecret(vpninfo.urlpath)
           fc == FirstCall(sp.urlpath)
       IN  /\ vpninfo' = [vpninfo EXCEPT !.urlpath = sp.urlpath]
           /\ ctx' = [ctx EXCEPT !.alt_secret = sp.alt_secret]
           /\ frame' = fc.frame
           /\ portal' = fc.portal
           /\ hist' = [hist EXCEPT !.ev = "call", !.calls = <<fc.portal>>]
    /\ blind_retry' = 0
    /\ pc' = "prelogin"
    /\ UNCHANGED <<result, xml_buf, parsed>>

(* the steps since a portal success, of which the first two are kept *)
WithStep(h, step) ==
    IF h.kind # "none" /\ Len(h.steps) < 2 THEN [h EXCEPT !.steps = Append(@, step)] ELSE h

(* the top of the loop: the prelogin request and parse_prelogin_xml *)
PreloginStep(responses) ==
    /\ pc = "prelogin"
    /\ \E resp \in responses :
         LET xml == parse_prelogin_xml(ctx, resp.doc, vpninfo, hist.nreq + 1)
             r == IF resp.kind = "transport" THEN resp.err
                  ELSE gpst_xml_or_error(resp, xml.result, -EINVAL, FALSE)
         IN  /\ xml_buf' = resp
             /\ result' = r
             /\ ctx' = IF resp.kind = "xml" THEN xml.ctx ELSE ctx
             /\ pc' = IF r # 0 THEN "ret" ELSE "got_form"
    /\ hist' = [hist EXCEPT
                  !.ev = "prelogin",
                  !.nreq = @ + 1,
                  !.req = [kind |-> "prelogin",
                           path |-> PreloginPath(vpninfo.urlpath, portal, vpninfo.platname),
                           form |-> NoForm, inputStr |-> NULL, blind |-> FALSE],
                  !.handoff = WithStep(@, "prelogin"),
                  !.before = [form |-> ctx.form, portal |-> portal,
                              blind_retry |-> blind_retry, username |-> ctx.username]]
    /\ UNCHANGED <<frame, portal, blind_retry, vpninfo, parsed>>

Prelogin ==
    /\ hist.nreq < MaxRequests
    /\ PreloginStep(PreloginResponses)

(* what the user enters into a field of the form *)
Entered(opt) ==
    IF opt.type = "TEXT" THEN "alice"
    ELSE IF opt.type = "PASSWORD" THEN "secret"
    ELSE IF opt.type = "TOKEN" THEN "123456"
    ELSE opt.value

(* got_form: process_auth_form(vpninfo, ctx->form); a NULL form is dereferenced *)
ProcessAuthForm ==
    /\ pc = "got_form"
    /\ IF ctx.form = NoForm
       THEN /\ pc' = "segv"
            /\ hist' = [hist EXCEPT !.ev = "segv"]
            /\ UNCHANGED <<result, ctx>>
       ELSE \E fr \in FormResults :
            /\ result' = fr
            /\ ctx' = IF fr = 0
                      THEN [ctx EXCEPT !.form.opts =
                              [i \in DOMAIN ctx.form.opts |->
                                 [ctx.form.opts[i] EXCEPT !.value = Entered(ctx.form.opts[i])]]]
                      ELSE ctx
            /\ pc' = IF fr # 0 THEN "ret" ELSE "replay_form"
            /\ hist' = [hist EXCEPT !.ev = "prompt", !.blind = FALSE,
                                    !.handoff = WithStep(@, "prompt")]
    /\ UNCHANGED <<frame, portal, blind_retry, vpninfo, xml_buf, parsed>>

(* if (result): the test on what do_gen_tokencode returned *)
TokencodeFailedNever(tr) == FALSE
TokencodeFailed(tr) == tr # 0

(* replay_form: do_gen_tokencode(vpninfo, ctx->form) *)
GenTokencode ==
    /\ pc = "replay_form"
    /\ \E tr \in {0, -EIO} :
         /\ result' = tr
         /\ vpninfo' = IF TokencodeFailed(tr)
                       THEN [vpninfo EXCEPT !.token_bypassed = 1] ELSE vpninfo
         /\ pc' = IF TokencodeFailed(tr) THEN "ret" ELSE "submit"
    /\ hist' = [hist EXCEPT !.ev = "tokencode"]
    /\ UNCHANGED <<frame, portal, blind_retry, ctx, xml_buf, parsed>>

(* the login or getconfig request, the classification of its response, and the
   branches that follow *)
SubmitStep(responses) ==
    /\ pc = "submit"
    /\ \E resp \in responses :
         LET pp == parse_portal_xml(ctx, vpninfo, resp.doc, resp.ext)
             pl == parse_login_xml(resp.doc, vpninfo.cookie, vpninfo.localname)
             ch == challenge_cb(ctx, resp.prompt, resp.inputStr, vpninfo)
             r == IF resp.kind = "transport" THEN resp.err
                  ELSE gpst_xml_or_error(resp, IF portal = 1 THEN pp.result ELSE pl.result,
                                         ch.result, TRUE)
             c == IF resp.kind = "challenge" THEN ch.ctx
                  ELSE IF resp.kind = "xml" /\ portal = 1 THEN pp.ctx
                  ELSE ctx
             a == AfterSubmit(r, c, portal, blind_retry)
             success == portal = 1 /\ r = 0
         IN  /\ xml_buf' = resp
             /\ result' = r
             /\ vpninfo' = IF resp.kind = "xml" /\ portal = 1 THEN pp.vpninfo
                           ELSE IF resp.kind = "xml" THEN [vpninfo EXCEPT !.cookie = pl.cookie]
                           ELSE vpninfo
             /\ parsed' = IF resp.kind = "xml" /\ portal = 0 THEN pl
                          ELSE IF resp.kind = "xml"
                          THEN [result |-> pp.result, form |-> pp.form,
                                prompted |-> pp.prompted, wrote |-> pp.wrote,
                                redirected |-> pp.redirected]
                          ELSE parsed
             /\ ctx' = a.ctx
             /\ pc' = a.pc
             /\ portal' = a.portal
             /\ blind_retry' = a.blind_retry
             /\ hist' = [hist EXCEPT
                  !.ev = "submit",
                  !.nreq = @ + 1,
                  !.req = [kind |-> IF portal = 1 THEN "getconfig" ELSE "login",
                           path |-> SubmitPath(portal),
                           form |-> ctx.form, inputStr |-> ctx.form.action,
                           blind |-> hist.blind],
                  !.blind = (a.pc = "replay_form"),
                  !.nBlind = IF hist.blind THEN @ + 1 ELSE @,
                  !.seen = hist.handoff,
                  !.handoff = IF success
                              THEN [kind |-> IF a.pc = "replay_form" THEN "replay" ELSE "relogin",
                                    steps |-> <<>>, form |-> ctx.form]
                              ELSE NoHandoff,
                  !.before = [form |-> ctx.form, portal |-> portal,
                              blind_retry |-> blind_retry, username |-> ctx.username],
                  !.portalOk = @ \/ success]
    /\ UNCHANGED frame

Submit ==
    /\ hist.nreq < MaxRequests
    /\ SubmitStep(SubmitResponses(portal))

(* out: gpst_login returns, and gpst_obtain_cookie calls it again or returns *)
Return ==
    /\ pc = "ret"
    /\ IF SecondCall(frame, result)
       THEN /\ frame' = "L722"
            /\ portal' = 0
            /\ blind_retry' = 0
            /\ pc' = "prelogin"
            /\ hist' = [hist EXCEPT !.ev = "call", !.calls = Append(@, 0),
                                    !.results = Append(@, result),
                                    !.handoff = NoHandoff, !.blind = FALSE]
       ELSE /\ pc' = "done"
            /\ hist' = [hist EXCEPT !.ev = "return", !.results = Append(@, result),
                                    !.neither = (frame = "L722" /\ result = -EEXIST),
                                    !.handoff = NoHandoff]
            /\ UNCHANGED <<frame, portal, blind_retry>>
    /\ UNCHANGED <<result, ctx, vpninfo, xml_buf, parsed>>

Next == ObtainCookie \/ Prelogin \/ ProcessAuthForm \/ GenTokencode \/ Submit \/ Return

Spec == Init /\ [][Next]_vars


(***************************************************************************)
(* SpecLive: gpst_obtain_cookie with a server that stops challenging       *)
(***************************************************************************)
(* requests that the server may answer with a challenge or with -EACCES; every later
   request gets another answer *)
MaxRounds == 3

LiveConfigs == {
    Config(NULL, 0, 0, 0, NULL),
    Config("gateway", -EINVAL, 0, 0, NULL),
    Config("portal:portal-userauthcookie", 0, 0, 0, NULL) }

LivePreloginResponses ==
    { ServerError(-EEXIST),
      Xml(PreloginDoc("prelogin-response", NULL, NULL, NULL, NULL, NULL), NoExt),
      Xml(PreloginDoc("prelogin-response", NULL, NULL, "Welcome", "User ID", "Passcode"), NoExt) }

(* the answers to the request sent after n others *)
LiveSubmitResponses(mode, n) ==
    (IF n < MaxRounds
     THEN {ServerError(-EACCES), Challenge("Enter the code", "tok1")}
     ELSE {})
        \cup {Transport(-EIO), ServerError(-EEXIST)}
        \cup (IF mode = 1
              THEN { Xml(PortalDoc("policy", TwoGateways, "3600", "Acme", "uac1", NULL), NoExt),
                     Xml(PortalDoc("policy", TwoGateways, NULL, NULL, NULL, NULL), NoExt) }
              ELSE { Xml(d, NoExt) : d \in LoginDocs })

InitLive ==
    /\ pc = "obtain_cookie"
    /\ frame = "none"
    /\ portal = 0
    /\ blind_retry = 0
    /\ result = 0
    /\ ctx = InitCtx
    /\ vpninfo \in { InitVpninfo(cfg, NULL) : cfg \in LiveConfigs }
    /\ xml_buf = NoResponse
    /\ parsed = NoParse
    /\ hist = InitHist

PreloginLive == PreloginStep(LivePreloginResponses)

SubmitLive == SubmitStep(LiveSubmitResponses(portal, hist.nreq))

NextLive ==
    ObtainCookie \/ PreloginLive \/ ProcessAuthForm \/ GenTokencode \/ SubmitLive \/ Return

(* gpst_obtain_cookie runs in one thread and every call it makes returns, so a step
   that can be taken is taken *)
SpecLive == InitLive /\ [][NextLive]_vars /\ WF_vars(NextLive)


(***************************************************************************)
(* SpecBye: gpst_bye                                                       *)
(***************************************************************************)
(* the configured paths and the stored cookies gpst_bye is called with *)
ByePaths == {NULL, "gateway", "ssl-vpn/login.esp", "vpn"}

ByeCookies ==
    { "authcookie=abc123&portal=Acme&user=alice&domain=%28empty_domain%29&computer=host-1",
      "authcookie=x%2fy&user=alice&preferred-ip=10.0.0.5&computer=host-1",
      OldCookie,
      "" }

(* the root of a logout response and its status attribute *)
LogoutDoc(root, status) == [root |-> root, status |-> status]

(* the answers to the logout request: no connection, an error document, a body that
   is no XML, and documents with and without the success status *)
ByeResponses ==
    { Transport(-EIO), ServerError(-EINVAL), ServerError(-EACCES),
      Challenge("junk", "junk"),
      Xml(LogoutDoc("response", "success"), NoExt),
      Xml(LogoutDoc("html", NULL), NoExt) }

(* what gpst_xml_or_error gives for a document when there is no xml_cb *)
LogoutResult(doc) ==
    IF doc.root = "response" /\ doc.status = "success" THEN 0 ELSE -EINVAL

(* the path of the logout request *)
LogoutPath == "ssl-vpn/logout.esp"

(* vpninfo->urlpath after the request: orig_path is put back *)
PathAfterRequestKept(orig_path, urlpath) == urlpath
PathAfterRequest(orig_path, urlpath) == orig_path

(* the message gpst_bye logs for a result *)
LogoutMessageAlwaysOk(r) == "Logout successful."
LogoutMessage(r) == IF r < 0 THEN "Logout failed." ELSE "Logout successful."

(* the session at the call: the HTTPS connection is open or closed; hist also keeps
   the path and the cookie at the call and the message logged *)
InitBye ==
    /\ pc = "gpst_bye"
    /\ frame = "none"
    /\ portal = 0
    /\ blind_retry = 0
    /\ result = 0
    /\ ctx = InitCtx
    /\ vpninfo \in { InitVpninfo(Config(up, 0, 0, 0, NULL), ck) @@ [https_open |-> o] :
                       up \in ByePaths, ck \in ByeCookies, o \in BOOLEAN }
    /\ xml_buf = NoResponse
    /\ parsed = NoParse
    /\ hist = InitHist @@ [log |-> NULL,
                           entry |-> [urlpath |-> vpninfo.urlpath, cookie |-> vpninfo.cookie]]

(* lines 755-765: the body is the cookie, the path is swapped for the logout path,
   and openconnect_close_https closes the connection; frame holds the locals *)
ByeClose ==
    /\ pc = "gpst_bye"
    /\ frame' = [request_body |-> vpninfo.cookie, method |-> "POST",
                 orig_path |-> vpninfo.urlpath]
    /\ vpninfo' = [vpninfo EXCEPT !.urlpath = LogoutPath, !.https_open = FALSE]
    /\ hist' = [hist EXCEPT !.ev = "close"]
    /\ pc' = "bye_request"
    /\ UNCHANGED <<portal, blind_retry, result, ctx, xml_buf, parsed>>

(* lines 766-779: do_https_request connects and sends, the path is put back, the
   response is classified and the outcome is logged *)
ByeRequest ==
    /\ pc = "bye_request"
    /\ \E resp \in ByeResponses :
         LET r == IF resp.kind = "transport" THEN resp.err
                  ELSE gpst_xml_or_error(resp,
                         IF resp.kind = "xml" THEN LogoutResult(resp.doc) ELSE -EINVAL,
                         -EINVAL, FALSE)
         IN  /\ xml_buf' = resp
             /\ result' = r
             /\ vpninfo' = [vpninfo EXCEPT
                              !.urlpath = PathAfterRequest(frame.orig_path, vpninfo.urlpath),
                              !.https_open = (resp.kind # "transport")]
             /\ hist' = [hist EXCEPT
                           !.ev = "logout",
                           !.nreq = @ + 1,
                           !.req = [kind |-> "logout", method |-> frame.method,
                                    path |-> vpninfo.urlpath,
                                    body |-> frame.request_body,
                                    https_open |-> vpninfo.https_open],
                           !.log = LogoutMessage(r)]
    /\ pc' = "bye_ret"
    /\ UNCHANGED <<frame, portal, blind_retry, ctx, parsed>>

(* out: gpst_bye returns result *)
ByeReturn ==
    /\ pc = "bye_ret"
    /\ pc' = "bye_done"
    /\ hist' = [hist EXCEPT !.ev = "return", !.results = Append(@, result)]
    /\ UNCHANGED <<frame, portal, blind_retry, result, ctx, vpninfo, xml_buf, parsed>>

NextBye == ByeClose \/ ByeRequest \/ ByeReturn

SpecBye == InitBye /\ [][NextBye]_vars


(***************************************************************************)
(* Claims about parse_login_xml (checked under SpecParse)                  *)
(***************************************************************************)
(* what a login response says, read off the document and not off the loop: its
   positional arguments are the element children of application-desc *)
RECURSIVE ElementsOf(_)
ElementsOf(nodes) ==
    IF nodes = <<>> THEN <<>>
    ELSE IF Head(nodes).type = "element" THEN <<Head(nodes)>> \o ElementsOf(Tail(nodes))
    ELSE ElementsOf(Tail(nodes))

WellFormedLogin(doc) ==
    /\ doc.root = "jnlp"
    /\ doc.child = "application-desc"
    /\ \A i \in 1..Len(doc.nodes) :
          doc.nodes[i].type = "element" => doc.nodes[i].name = "argument"

(* the text of positional argument i (0-based), NULL when the list is shorter *)
WireArg(doc, i) ==
    LET e == ElementsOf(doc.nodes)
    IN  IF i < Len(e) THEN e[i + 1].content ELSE NULL

WireAbsent(doc, i) == WireArg(doc, i) \in {NULL, "", "(null)", "-1"}

(* authcookie (1) or user (4) absent, connection-type (12) not "tunnel", or
   clientVer (14) not "4100" *)
FatalAnomaly(doc) ==
    \/ WireAbsent(doc, 1)
    \/ WireAbsent(doc, 4)
    \/ WireArg(doc, 12) # "tunnel"
    \/ WireArg(doc, 14) # "4100"

RECURSIVE SumUnknown(_)
SumUnknown(visits) ==
    IF visits = <<>> THEN 0 ELSE Head(visits).unknown + SumUnknown(Tail(visits))

(* C1: for a login response with the expected structure, a fatal anomaly (authcookie
   or user absent, connection-type not "tunnel", clientVer not "4100") makes
   parse_login_xml return -EPERM and leave vpninfo->cookie as it was; and for every
   response a cookie is stored if and only if the response has the expected
   structure and no fatal anomaly. *)
C1_FatalAnomalyDeniesCookie ==
    pc = "parsed" =>
        /\ (WellFormedLogin(xml_buf) /\ FatalAnomaly(xml_buf))
              => (result = -EPERM /\ vpninfo.cookie = OldCookie)
        /\ (vpninfo.cookie # OldCookie)
              <=> (WellFormedLogin(xml_buf) /\ ~FatalAnomaly(xml_buf))

(* C1 witness: a response whose only fatal anomaly is a wrong clientVer was refused *)
C1_Witness ==
    /\ pc = "parsed"
    /\ WellFormedLogin(xml_buf)
    /\ ~WireAbsent(xml_buf, 1) /\ ~WireAbsent(xml_buf, 4)
    /\ WireArg(xml_buf, 12) = "tunnel"
    /\ WireArg(xml_buf, 14) = "x%2Fy"
    /\ result = -EPERM
    /\ vpninfo.cookie = OldCookie

(* C8 as stated: every surplus argument, whatever its value, is counted as an
   unexpected value. *)
C8_EverySurplusCounted ==
    (pc = "parsed" /\ WellFormedLogin(xml_buf)) =>
        LET n == Len(ElementsOf(xml_buf.nodes))
            v == parsed.locals.visits
        IN  /\ Len(v) >= n
            /\ \A k \in gp_login_nargs + 1 .. n : v[k].unknown = 1

(* C8 amended: every surplus argument is visited under entry 0 (always unknown); it
   is counted as an unexpected, never fatal, value exactly when its value is present
   (not empty, "(null)" or "-1"), and unknown_args is the sum of what the visits
   counted. *)
C8_SurplusCountedWhenPresent ==
    (pc = "parsed" /\ WellFormedLogin(xml_buf)) =>
        LET n == Len(ElementsOf(xml_buf.nodes))
            v == parsed.locals.visits
        IN  /\ Len(v) >= n
            /\ \A k \in gp_login_nargs + 1 .. n :
                  /\ v[k].idx = 0
                  /\ v[k].node
                  /\ v[k].unknown = (IF WireAbsent(xml_buf, k - 1) THEN 0 ELSE 1)
                  /\ v[k].fatal = 0
            /\ parsed.locals.unknown_args = SumUnknown(v)

(* C8 witness: two surplus arguments, one with a value and counted, one empty and
   not counted *)
C8_Witness ==
    /\ pc = "parsed"
    /\ WellFormedLogin(xml_buf)
    /\ Len(ElementsOf(xml_buf.nodes)) = gp_login_nargs + 2
    /\ WireArg(xml_buf, gp_login_nargs) = "more"
    /\ WireArg(xml_buf, gp_login_nargs + 1) = ""
    /\ parsed.locals.visits[gp_login_nargs + 1].unknown = 1
    /\ parsed.locals.visits[gp_login_nargs + 2].unknown = 0

(* C9: with fewer arguments than the schema, the loop visits schema positions
   0 .. nargs-1 once each and in order, never an index at or past the table's length;
   a position past the end of the list is evaluated with no value against its own
   entry: fatal exactly when the entry is err_missing, counted exactly when it is
   warn_missing or err_missing. *)
C9_ShortListVisitsWholeSchema ==
    (pc = "parsed" /\ WellFormedLogin(xml_buf)
        /\ Len(ElementsOf(xml_buf.nodes)) < gp_login_nargs) =>
        LET n == Len(ElementsOf(xml_buf.nodes))
            v == parsed.locals.visits
        IN  /\ Len(v) = gp_login_nargs
            /\ \A k \in 1..Len(v) : v[k].idx = k - 1 /\ v[k].idx < gp_login_nargs
            /\ \A k \in n + 1 .. Len(v) :
                  /\ v[k].value = NULL
                  /\ v[k].fatal = gp_login_args[k].err_missing
                  /\ v[k].unknown = (IF gp_login_args[k].warn_missing = 1
                                        \/ gp_login_args[k].err_missing = 1
                                     THEN 1 ELSE 0)

(* C9 witness: a list cut before connection-type: connection-type and clientVer are
   missing and fatal, nothing else is *)
C9_Witness ==
    /\ pc = "parsed"
    /\ WellFormedLogin(xml_buf)
    /\ Len(ElementsOf(xml_buf.nodes)) = 12
    /\ ~WireAbsent(xml_buf, 1) /\ ~WireAbsent(xml_buf, 4)
    /\ parsed.locals.fatal_args = 2
    /\ result = -EPERM

(* C10: a response with the expected structure and no fatal anomaly returns 0 and
   stores the cookie that was built, however many non-fatal anomalies it has. *)
C10_NonFatalNeverAborts ==
    (pc = "parsed" /\ WellFormedLogin(xml_buf) /\ ~FatalAnomaly(xml_buf)) =>
        /\ result = 0
        /\ vpninfo.cookie = parsed.cookie
        /\ vpninfo.cookie # OldCookie
        /\ parsed.locals.fatal_args = 0
        /\ parsed.locals.unknown_args >= 0

(* C10 witness: three non-fatal anomalies (a value at an always-unknown position, a
   missing persistent-cookie, a surplus argument) and success *)
C10_Witness ==
    /\ pc = "parsed"
    /\ WellFormedLogin(xml_buf)
    /\ ~WireAbsent(xml_buf, 0)
    /\ WireAbsent(xml_buf, 2)
    /\ Len(ElementsOf(xml_buf.nodes)) > gp_login_nargs
    /\ parsed.locals.unknown_args >= 3
    /\ result = 0
    /\ vpninfo.cookie # OldCookie


(***************************************************************************)
(* Claims about gpst_login and gpst_obtain_cookie (checked under Spec)     *)
(***************************************************************************)
(* the last step was a login or getconfig submission *)
Submitted == hist.ev = "submit"

(* the last step was the replay of the portal's form, answered -EACCES *)
BlindDenied == Submitted /\ hist.req.blind /\ result = -EACCES

(* the last step was a submission the user was prompted for, answered -EACCES *)
PromptedDenied == Submitted /\ ~hist.req.blind /\ result = -EACCES

(* C2: in a run of gpst_obtain_cookie, whatever the server answers, the filled form
   is submitted without a prompt at most once, also after the gateway answered the
   replay with -EACCES and also when gpst_login is called a second time *)
C2_BlindRetryAtMostOnce == hist.nBlind <= 1

(* a prompted submission in the second call of gpst_login, after a replay in the first *)
C2_Witness ==
    /\ hist.nBlind = 1
    /\ Len(hist.calls) = 2
    /\ Submitted
    /\ ~hist.req.blind

(* C3, as the specification states it: when the gateway answers the replay with
   -EACCES, gpst_login stops and returns -EACCES *)
C3_BlindUnauthorizedFailsOutright ==
    BlindDenied => pc = "ret" /\ blind_retry = 0

(* C3, as the code has it: when the gateway answers the replay with -EACCES,
   gpst_login clears blind_retry and blanks the form, does not return, and goes on
   in gateway mode with a new prelogin request instead of the same form *)
C3_BlindUnauthorizedStartsOver ==
    BlindDenied =>
        /\ blind_retry = 0
        /\ portal = 0
        /\ pc = "prelogin"
        /\ \A i \in DOMAIN ctx.form.opts :
              ctx.form.opts[i].type # "HIDDEN" => ctx.form.opts[i].value = NULL

C3_Witness == BlindDenied /\ hist.nBlind = 1 /\ pc = "prelogin"

(* C4: when a submission the user was prompted for is answered -EACCES, the same
   form, with the same auth_id, fields and action and with blank values, goes to
   process_auth_form again, with no prelogin request in between and in the same mode *)
C4_UnauthorizedPresentsSameForm ==
    PromptedDenied =>
        /\ pc = "got_form"
        /\ portal = hist.before.portal
        /\ ctx.form.id = hist.req.form.id
        /\ ctx.form.auth_id = hist.req.form.auth_id
        /\ ctx.form.action = hist.req.form.action
        /\ Len(ctx.form.opts) = Len(hist.req.form.opts)
        /\ \A i \in DOMAIN ctx.form.opts :
              /\ ctx.form.opts[i].name = hist.req.form.opts[i].name
              /\ ctx.form.opts[i].type = hist.req.form.opts[i].type
              /\ ctx.form.opts[i].type # "HIDDEN" => ctx.form.opts[i].value = NULL

(* the test on the session after a portal success, in the words of the claim *)
ReplayAllowed ==
    \/ ctx.portal_userauthcookie # NULL
    \/ ctx.portal_prelogonuserauthcookie # NULL
    \/ (ctx.form.auth_id # "_challenge" /\ ctx.alt_secret = NULL)

(* the last step was a getconfig submission that the portal accepted *)
PortalSucceeded == Submitted /\ hist.before.portal = 1 /\ result = 0

(* C5: after the portal accepted the submission, gpst_login is in gateway mode; when
   a portal cookie is held, or the form is no challenge form and there is no
   alt_secret, the next request is the login submission of the same filled form with
   no prelogin request and no prompt before it; otherwise a prelogin request in
   gateway mode and then a prompt come before any login submission *)
C5_PortalSuccessHandsOver ==
    /\ PortalSucceeded =>
          /\ portal = 0
          /\ ReplayAllowed => pc = "replay_form" /\ hist.handoff.kind = "replay"
          /\ ~ReplayAllowed => pc = "prelogin" /\ hist.handoff.kind = "relogin"
    /\ hist.handoff.kind = "replay" => hist.handoff.steps = <<>>
    /\ hist.handoff.kind = "relogin" =>
          /\ hist.handoff.steps \in {<<>>, <<"prelogin">>, <<"prelogin", "prompt">>}
          /\ hist.ev = "prelogin" => hist.req.kind = "prelogin" /\ hist.before.portal = 0
    /\ Submitted /\ hist.seen.kind = "replay" =>
          /\ hist.seen.steps = <<>>
          /\ hist.req.kind = "login"
          /\ hist.req.path = "ssl-vpn/login.esp"
          /\ hist.req.form = hist.seen.form
    /\ Submitted /\ hist.seen.kind = "relogin" =>
          /\ hist.seen.steps = <<"prelogin", "prompt">>
          /\ hist.req.kind = "login"

(* a login submission that replays the portal's form *)
C5_Witness ==
    /\ Submitted
    /\ hist.seen.kind = "replay"
    /\ hist.req.kind = "login"
    /\ hist.req.form.opts[1].value = "alice"

(* the configured path names the role, in the words of the claim *)
NamesPortal == vpninfo.urlpath # NULL /\ (vpninfo.urlpath = "portal" \/ HasPrefix(vpninfo.urlpath, "global-protect"))
NamesGateway == vpninfo.urlpath # NULL /\ (vpninfo.urlpath = "gateway" \/ HasPrefix(vpninfo.urlpath, "ssl-vpn"))

(* C6: gpst_obtain_cookie calls gpst_login once, in the mode the path names, when
   the path names a role; otherwise in portal mode first and in gateway mode once
   more exactly when the first call returned -EEXIST; never more than twice *)
C6_OneCallOrPortalThenGateway ==
    /\ Len(hist.calls) <= 2
    /\ pc # "obtain_cookie" =>
          /\ Len(hist.calls) >= 1
          /\ NamesPortal => hist.calls = <<1>>
          /\ ~NamesPortal /\ NamesGateway => hist.calls = <<0>>
          /\ ~NamesPortal /\ ~NamesGateway => hist.calls[1] = 1
          /\ Len(hist.calls) = 2 => hist.calls[2] = 0 /\ hist.results[1] = -EEXIST
    /\ pc = "done" /\ ~NamesPortal /\ ~NamesGateway =>
          (Len(hist.calls) = 2 <=> hist.results[1] = -EEXIST)

(* gpst_obtain_cookie returned after the portal-mode call gave -EEXIST and the
   gateway-mode call ran *)
C6_Witness ==
    /\ pc = "done"
    /\ hist.calls = <<1, 0>>
    /\ hist.results[1] = -EEXIST
    /\ Len(hist.results) = 2

(* the last step was a prelogin request answered by a prelogin-response with a SAML
   marker, whose saml-request, if there is one, decodes *)
SamlPrelogin ==
    /\ hist.ev = "prelogin"
    /\ xml_buf.kind = "xml"
    /\ xml_buf.doc.root = "prelogin-response"
    /\ (xml_buf.doc.saml_request # NULL \/ xml_buf.doc.saml_method # NULL)
    /\ (xml_buf.doc.saml_request # NULL => Base64Ok(xml_buf.doc.saml_request))

(* the session holds a portal cookie or an alt_secret *)
HoldsCompletionSignal ==
    \/ ctx.portal_userauthcookie # NULL
    \/ ctx.portal_prelogonuserauthcookie # NULL
    \/ ctx.alt_secret # NULL

(* C7: a prelogin response with a SAML marker gives -EPERM when the session holds no
   portal cookie and no alt_secret: ctx->form stays what it was and gpst_login
   returns without a prompt or a submission; when the session holds one of them a
   new form is built and gpst_login goes on to process_auth_form *)
C7_SamlNeedsCompletionSignal ==
    SamlPrelogin =>
        /\ ~HoldsCompletionSignal =>
              /\ result = -EPERM
              /\ ctx.form = hist.before.form
              /\ pc = "ret"
        /\ HoldsCompletionSignal =>
              /\ result = 0
              /\ ctx.form.id = hist.nreq
              /\ ctx.form.auth_id = "_login"
              /\ pc = "got_form"

(* a SAML prelogin response refused while ctx->form is still NULL *)
C7_Witness ==
    /\ SamlPrelogin
    /\ ~HoldsCompletionSignal
    /\ result = -EPERM
    /\ pc = "ret"

(***************************************************************************)
(* Claims about the cookie of parse_login_xml (checked under SpecParse)    *)
(***************************************************************************)
(* the pieces of s between the occurrences of the character sep *)
SplitOn(s, sep) ==
    LET P == {i \in 1..Len(s) : CharAt(s, i) = sep}
        n == Cardinality(P)
        pos(k) == CHOOSE i \in P : Cardinality({j \in P : j < i}) = k - 1
    IN  [k \in 1..(n + 1) |->
           SubSeq(s, IF k = 1 THEN 1 ELSE pos(k - 1) + 1,
                     IF k = n + 1 THEN Len(s) ELSE pos(k) - 1)]

(* a cookie read back as key=value pairs separated by "&", keys and values decoded *)
CookiePairs(cookie) ==
    LET entries == SplitOn(cookie, "&")
    IN  [i \in 1..Len(entries) |->
           LET kv == SplitOn(entries[i], "=")
           IN  IF Len(kv) = 2
               THEN << urldecode_inplace(kv[1]), urldecode_inplace(kv[2]) >>
               ELSE << "malformed", entries[i] >>]

(* the saved fields by position (0-based), in the words of the claim *)
SavePositions == {1, 3, 4, 7, 15, 18}

SaveName(i) ==
    CASE i = 1 -> "authcookie" [] i = 3 -> "portal" [] i = 4 -> "user"
      [] i = 7 -> "domain" [] i = 15 -> "preferred-ip" [] i = 18 -> "preferred-ipv6"

(* the saved fields a response carries from position i on, with their decoded values *)
RECURSIVE SavedFrom(_, _)
SavedFrom(doc, i) ==
    IF i > 18 THEN <<>>
    ELSE (IF i \in SavePositions /\ ~WireAbsent(doc, i)
          THEN << << SaveName(i), urldecode_inplace(WireArg(doc, i)) >> >>
          ELSE <<>>) \o SavedFrom(doc, i + 1)

(* C11: when parse_login_xml succeeds, the cookie it stores reads back as the saved
   fields whose value is present, in schema order, each with its URL-decoded value,
   followed by one "computer" entry with the local hostname, and nothing else *)
C11_CookieIsSavedFieldsThenComputer ==
    (pc = "parsed" /\ result = 0) =>
        CookiePairs(vpninfo.cookie)
            = SavedFrom(xml_buf, 0) \o << << "computer", vpninfo.localname >> >>

(* a login that succeeds without portal, with a domain and a preferred-ipv6 that
   decoding changes, and with a surplus argument *)
C11_Witness ==
    /\ pc = "parsed"
    /\ result = 0
    /\ WireAbsent(xml_buf, 3)
    /\ WireArg(xml_buf, 7) = "a+b%3D%26c"
    /\ WireArg(xml_buf, 18) = "a+b%3D%26c"
    /\ WireArg(xml_buf, 21) = "more"
    /\ Len(CookiePairs(vpninfo.cookie)) = 5

(***************************************************************************)
(* Claims about the challenge loop (checked under SpecLive)                *)
(***************************************************************************)
(* the last step was the submission of a challenge form, and the answer to it was
   no challenge *)
ChallengeAnswered ==
    /\ Submitted
    /\ hist.req.form.auth_id = "_challenge"
    /\ xml_buf.kind # "challenge"

(* the loop was left: the gateway accepted the login and gpst_login returns 0, or the
   portal accepted it and gpst_login goes on to the gateway, or the answer was
   -EACCES and the user is asked again with blank values, or gpst_login returns the
   error *)
ChallengeLoopLeft ==
    \/ result = 0 /\ hist.before.portal = 0 /\ pc = "ret"
    \/ result = 0 /\ hist.before.portal = 1 /\ portal = 0 /\ pc \in {"replay_form", "prelogin"}
    \/ /\ result = -EACCES
       /\ pc \in {"got_form", "prelogin"}
       /\ \A i \in DOMAIN ctx.form.opts :
             ctx.form.opts[i].type # "HIDDEN" => ctx.form.opts[i].value = NULL
    \/ result \notin {0, -EACCES, -EAGAIN} /\ pc = "ret"

(* C12: when the answer to the submission of a challenge form is no further
   challenge, gpst_login leaves the challenge loop with that answer: success, a new
   prompt after -EACCES, or the error; and when the server stops sending challenges
   and -EACCES after finitely many requests, every challenge is followed by the return
   of gpst_login *)
C12_ChallengeLoopEnds ==
    /\ [](ChallengeAnswered => ChallengeLoopLeft)
    /\ ((Submitted /\ result = -EAGAIN) ~> (pc = "ret"))

(* a challenge form was submitted after the server stopped challenging, and the
   gateway accepted it *)
C12_Witness ==
    /\ ChallengeAnswered
    /\ hist.nreq > MaxRounds
    /\ hist.before.portal = 0
    /\ result = 0
    /\ pc = "ret"

(***************************************************************************)
(* Claims about the errors of gpst_login and parse_portal_xml (under Spec) *)
(***************************************************************************)
(* the last step was a getconfig submission answered by a document, which
   parse_portal_xml read *)
PortalParsed == Submitted /\ xml_buf.kind = "xml" /\ hist.before.portal = 1

(* process_auth_form reported that the user cancelled: for the form of gpst_login,
   or for the selection form of parse_portal_xml *)
LoginFormCancelled == hist.ev = "prompt" /\ result = OC_FORM_RESULT_CANCELLED

SelectionFormCancelled ==
    PortalParsed /\ parsed.prompted /\ xml_buf.ext.form_result = OC_FORM_RESULT_CANCELLED

(* C13: when process_auth_form reports a cancellation, for the form of gpst_login or
   for the gateway selection form, gpst_login returns it without a redirect, and
   gpst_obtain_cookie returns it in its next step: no request, no prompt and no
   redirect follows and no cookie is stored *)
C13_CancellationAbortsTheFlow ==
    /\ [](LoginFormCancelled \/ SelectionFormCancelled =>
            /\ pc = "ret"
            /\ result = OC_FORM_RESULT_CANCELLED
            /\ vpninfo.cookie = NULL)
    /\ [](SelectionFormCancelled => ~parsed.redirected /\ vpninfo.redirect_url = NULL)
    /\ [][(pc = "ret" /\ result = OC_FORM_RESULT_CANCELLED) =>
            /\ pc' = "done"
            /\ result' = OC_FORM_RESULT_CANCELLED
            /\ hist'.nreq = hist.nreq
            /\ hist'.calls = hist.calls
            /\ vpninfo' = vpninfo]_vars

(* gpst_obtain_cookie returned the cancellation of the gateway selection *)
C13_Witness ==
    /\ pc = "done"
    /\ result = OC_FORM_RESULT_CANCELLED
    /\ xml_buf.kind = "xml"
    /\ hist.req.kind = "getconfig"
    /\ parsed.prompted
    /\ ~parsed.redirected

(* the last step was a prelogin request answered by a document whose root is not
   prelogin-response *)
WrongRootPrelogin ==
    /\ hist.ev = "prelogin"
    /\ xml_buf.kind = "xml"
    /\ xml_buf.doc.root # "prelogin-response"

(* C14: when the root of the prelogin response is not prelogin-response,
   parse_prelogin_xml returns an error and gpst_login returns before it calls
   process_auth_form, so no missing and no earlier form is presented or submitted *)
C14_WrongRootIsInvalidResponse ==
    WrongRootPrelogin => result # 0 /\ pc = "ret"

(* the portal response has no gateways/external/list subtree, or its list holds no
   entry element *)
NoGatewayList == xml_buf.doc.root # "policy" \/ xml_buf.doc.gateways = NoGateways

NoGatewayEntry ==
    \A i \in 1..Len(xml_buf.doc.gateways) : xml_buf.doc.gateways[i].elem # "entry"

(* C15: for a portal response without a gateway list, or with a list that has no
   entry, parse_portal_xml returns -EINVAL and calls neither process_auth_form for
   the selection form, nor write_new_config, nor handle_redirect, and leaves
   vpninfo->redirect_url as it was *)
C15_NoGatewaysIsInvalidResponse ==
    (PortalParsed /\ (NoGatewayList \/ NoGatewayEntry)) =>
        /\ result = -EINVAL
        /\ parsed.result = -EINVAL
        /\ ~parsed.prompted
        /\ ~parsed.wrote
        /\ ~parsed.redirected
        /\ vpninfo.new_config = NULL
        /\ vpninfo.redirect_url = NULL
        /\ pc = "ret"

(* a list without an entry, in a session that has a write_new_config callback *)
C15_Witness ==
    /\ PortalParsed
    /\ ~NoGatewayList
    /\ NoGatewayEntry
    /\ vpninfo.write_new_config = 1
    /\ result = -EINVAL

(* do_gen_tokencode failed in the last step *)
TokencodeError == hist.ev = "tokencode" /\ result # 0

(* C16: when do_gen_tokencode fails, gpst_login sets token_bypassed, sends no
   submission for the form and returns the error of the generator, and
   gpst_obtain_cookie returns it without another attempt *)
C16_TokencodeFailureIsFatal ==
    /\ [](TokencodeError =>
            /\ vpninfo.token_bypassed = 1
            /\ pc = "ret")
    /\ [][TokencodeError =>
            /\ pc' = "done"
            /\ result' = result
            /\ hist'.nreq = hist.nreq
            /\ hist'.calls = hist.calls]_vars
    /\ [](vpninfo.token_bypassed = 1 => pc \in {"ret", "done"})

(* the generator failed for a form the user had filled in, before any submission *)
C16_Witness ==
    /\ TokencodeError
    /\ vpninfo.token_bypassed = 1
    /\ ctx.form.opts[1].value = "alice"
    /\ hist.req.kind = "prelogin"
    /\ pc = "ret"

(***************************************************************************)
(* Claims about the forms: parse_prelogin_xml and challenge_cb             *)
(***************************************************************************)
(* the last step was a prelogin request whose response parse_prelogin_xml turned
   into a new form *)
FormBuilt == hist.ev = "prelogin" /\ xml_buf.kind = "xml" /\ ctx.form.id = hist.nreq

(* C19: every form parse_prelogin_xml builds has exactly two fields, in this order:
   one named "user", of type TEXT without a value when ctx->username was NULL and of
   type HIDDEN holding that username otherwise; and one named by the alt-secret when
   there is one and "passwd" otherwise; its auth_id is "_login", its action is NULL *)
C19_PreloginFormShape ==
    FormBuilt =>
        /\ Len(ctx.form.opts) = 2
        /\ ctx.form.opts[1].name = "user"
        /\ IF hist.before.username = NULL
           THEN ctx.form.opts[1].type = "TEXT" /\ ctx.form.opts[1].value = NULL
           ELSE ctx.form.opts[1].type = "HIDDEN"
                /\ ctx.form.opts[1].value = hist.before.username
        /\ ctx.form.opts[2].name = (IF ctx.alt_secret # NULL THEN ctx.alt_secret ELSE "passwd")
        /\ ctx.form.auth_id = "_login"
        /\ ctx.form.action = NULL

(* C19 witness: a form built while the session held the username of a portal login,
   under an alt-secret *)
C19_Witness ==
    /\ FormBuilt
    /\ hist.before.username = "alice"
    /\ ctx.form.opts[1].type = "HIDDEN"
    /\ ctx.alt_secret # NULL

(* the last step was a submission that the server answered with a challenge *)
Challenged == hist.ev = "submit" /\ xml_buf.kind = "challenge"

(* C20: challenge_cb returns -EAGAIN and leaves the form that was submitted, the same
   object, with the value of the secret field cleared, the identity field HIDDEN with
   its value as it was, message the prompt of the challenge, action its inputStr,
   auth_id "_challenge", and as many fields under the same names *)
C20_ChallengeRewritesTheForm ==
    Challenged =>
        /\ result = -EAGAIN
        /\ ctx.form.id = hist.req.form.id
        /\ Len(ctx.form.opts) = Len(hist.req.form.opts)
        /\ \A i \in DOMAIN ctx.form.opts : ctx.form.opts[i].name = hist.req.form.opts[i].name
        /\ ctx.form.opts[2].value = NULL
        /\ ctx.form.opts[1].type = "HIDDEN"
        /\ ctx.form.opts[1].value = hist.req.form.opts[1].value
        /\ ctx.form.message = xml_buf.prompt
        /\ ctx.form.action = xml_buf.inputStr
        /\ ctx.form.auth_id = "_challenge"

(* C20 witness: a challenge answers a form whose identity field the user typed into
   and whose secret field held what the user entered *)
C20_Witness ==
    /\ Challenged
    /\ hist.req.form.opts[1].type = "TEXT"
    /\ hist.req.form.opts[1].value = "alice"
    /\ hist.req.form.opts[2].value # NULL
    /\ hist.req.form.auth_id = "_login"

(***************************************************************************)
(* Claims about parse_portal_xml (checked under Spec)                      *)
(***************************************************************************)
IsEntry(node) == node.elem = "entry"

(* the entry elements of the gateway list of a portal response *)
EntriesOf(doc) == IF doc.root = "policy" THEN SelectSeq(doc.gateways, IsEntry) ELSE <<>>

(* this step sent a request in portal mode and parse_portal_xml read the response *)
PortalStep == hist'.nreq = hist.nreq + 1 /\ PortalParsed'

(* the gateway the selection ends on: the choice the user made, else the gateway
   named beforehand, else the first entry *)
SelectedGateway(authgroup, e, sel) ==
    IF sel \in 1..Len(e) THEN e[sel].name
    ELSE IF authgroup # NULL THEN authgroup
    ELSE e[1].name

(* C22: the selection form parse_portal_xml builds has one SELECT field whose choices
   are the entry elements of the gateway list, one per entry, in document order; with
   no gateway named beforehand vpninfo->authgroup becomes the name of the first entry
   unless the user chooses another; and whenever handle_redirect is called,
   vpninfo->redirect_url is "https://" followed by the name of the selected gateway *)
C22_SelectListsEntriesAndRedirects ==
    /\ [](PortalParsed /\ parsed.form # NoForm =>
            LET e == EntriesOf(xml_buf.doc)
                f == parsed.form.opts
            IN  /\ Len(f) = 1
                /\ f[1].type = "SELECT"
                /\ Len(f[1].choices) = Len(e)
                /\ \A i \in 1..Len(e) :
                      /\ f[1].choices[i].name = e[i].name
                      /\ f[1].choices[i].label = e[i].label)
    /\ [][PortalStep =>
            LET e == EntriesOf(xml_buf'.doc)
                sel == xml_buf'.ext.sel
            IN  /\ (vpninfo.authgroup = NULL /\ Len(e) > 0
                        /\ ~(parsed'.prompted /\ sel \in 1..Len(e)))
                      => vpninfo'.authgroup = e[1].name
                /\ parsed'.redirected
                      => /\ vpninfo'.authgroup = SelectedGateway(vpninfo.authgroup, e, sel)
                         /\ vpninfo'.redirect_url = "https://" \o vpninfo'.authgroup]_vars

(* C22 witness: a list of two entries around an element that is no entry; the user
   chose the second and the redirect went to it *)
C22_Witness ==
    /\ PortalParsed
    /\ Len(xml_buf.doc.gateways) = 3
    /\ Len(parsed.form.opts[1].choices) = 2
    /\ xml_buf.ext.sel = 2
    /\ parsed.redirected
    /\ vpninfo.redirect_url = "https://gw2.example.com"
    /\ result = 0

(* C23: an interval the caller set (vpninfo->trojan_interval # 0) is changed by no
   step; with none set, a portal response whose hip-report-interval is N seconds makes
   it N - 60; a portal response without hip-report-interval leaves it as it is *)
C23_HipIntervalCallerWins ==
    /\ [][vpninfo.trojan_interval # 0
            => vpninfo'.trojan_interval = vpninfo.trojan_interval]_vars
    /\ [][PortalStep /\ xml_buf'.doc.root = "policy" =>
            IF xml_buf'.doc.hip = NULL
            THEN vpninfo'.trojan_interval = vpninfo.trojan_interval
            ELSE vpninfo.trojan_interval = 0
                  => \/ xml_buf'.doc.hip = "90" /\ vpninfo'.trojan_interval = 90 - 60
                     \/ xml_buf'.doc.hip = "3600" /\ vpninfo'.trojan_interval = 3600 - 60]_vars

(* C23 witness: with no interval set the portal's 3600 seconds became 3540 *)
C23_Witness ==
    /\ PortalParsed
    /\ xml_buf.doc.hip = "3600"
    /\ vpninfo.trojan_interval = 3540

(* the caller's interval of 600 is still there after a portal response that carried
   hip-report-interval *)
C23_WitnessCallerSet ==
    /\ PortalParsed
    /\ xml_buf.doc.hip # NULL
    /\ vpninfo.trojan_interval = 600

(***************************************************************************)
(* Claims about the continuation token (checked under Spec)                *)
(***************************************************************************)
(* C24: whenever ctx->form is set, its action is set exactly when its auth_id is
   "_challenge"; a submission carries inputStr exactly when the form it submits is a
   challenge form; and a form parse_prelogin_xml has just built has no action, whatever
   the form before it held *)
C24_ActionIffChallenge ==
    /\ ctx.form # NoForm => ((ctx.form.action # NULL) <=> (ctx.form.auth_id = "_challenge"))
    /\ Submitted =>
          ((hist.req.inputStr # NULL) <=> (hist.req.form.auth_id = "_challenge"))
    /\ FormBuilt => ctx.form.action = NULL /\ ctx.form.auth_id = "_login"

(* C24 witness: a form built by a prelogin that followed a challenge form holding a
   continuation token *)
C24_Witness ==
    /\ FormBuilt
    /\ hist.before.form.auth_id = "_challenge"
    /\ hist.before.form.action = "tok1"
    /\ ctx.form.action = NULL

(* a challenge form was submitted with its inputStr *)
C24_WitnessSubmitted ==
    /\ Submitted
    /\ hist.req.form.auth_id = "_challenge"
    /\ hist.req.inputStr = "tok1"

(***************************************************************************)
(* Claims about the second call of gpst_login (checked under Spec)         *)
(***************************************************************************)
(* gpst_obtain_cookie called gpst_login a second time, in gateway mode *)
FallbackRan == Len(hist.calls) = 2

(* C25: with no role named by the path, gpst_login is called a second time only when
   no portal response succeeded in the first call, and "Server is neither a
   GlobalProtect portal nor a gateway" is never logged in a run in which the portal
   login succeeded *)
C25_FallbackOnlyWithoutPortalSuccess ==
    /\ FallbackRan => ~hist.portalOk
    /\ hist.neither => ~hist.portalOk

(***************************************************************************)
(* The kind of the secret field after a challenge                          *)
(***************************************************************************)
(* challenge_cb, lines 233-236: the secret field becomes TOKEN when
   can_gen_tokencode returned 0 and the field was PASSWORD in the form that was
   submitted, and PASSWORD in every other case.  Whether a return value of 0 means
   that a generator is at hand is decided by can_gen_tokencode, which is no part of
   auth-globalprotect.c; this states the rule on the return value only *)
SecretKindFollowsReturnValue ==
    Challenged =>
        ctx.form.opts[2].type =
            (IF vpninfo.tokencode_rc = 0 /\ hist.req.form.opts[2].type = "PASSWORD"
             THEN "TOKEN" ELSE "PASSWORD")

(* a second challenge in a row, with can_gen_tokencode returning 0: the secret field,
   TOKEN after the first challenge, is PASSWORD again *)
SecretKindAlternated ==
    /\ Challenged
    /\ vpninfo.tokencode_rc = 0
    /\ hist.req.form.auth_id = "_challenge"
    /\ hist.req.form.opts[2].type = "TOKEN"
    /\ ctx.form.opts[2].type = "PASSWORD"

(***************************************************************************)
(* Claims about gpst_bye (checked under SpecBye)                           *)
(***************************************************************************)
(* gpst_bye returned, and the logout request failed or its response was no document
   with the success status *)
LogoutFailed ==
    /\ pc = "bye_done"
    /\ ~(xml_buf.kind = "xml" /\ xml_buf.doc.root = "response"
                              /\ xml_buf.doc.status = "success")

(* C17, as the specification states it: a failed logout is reported as failed, but
   gpst_bye returns a success status; the stored cookie stays as it was *)
C17_FailedLogoutReturnsSuccess ==
    LogoutFailed =>
        /\ hist.log = "Logout failed."
        /\ hist.results = <<0>>
        /\ vpninfo.cookie = hist.entry.cookie

(* C17, as the code has it: a failed logout is reported as failed and gpst_bye
   returns the negative error to its caller; the stored cookie stays as it was *)
C17_FailedLogoutReturnsError ==
    LogoutFailed =>
        /\ hist.log = "Logout failed."
        /\ Len(hist.results) = 1
        /\ hist.results[1] < 0
        /\ hist.results[1] = result
        /\ vpninfo.cookie = hist.entry.cookie

(* gpst_bye returned after a response without the success status *)
C17_Witness ==
    /\ LogoutFailed
    /\ xml_buf.kind = "xml"
    /\ hist.results = << -EINVAL >>
    /\ vpninfo.cookie # ""

(* C18: the HTTPS connection is closed before the logout request is sent; the request
   is a POST to ssl-vpn/logout.esp whose body is the stored cookie as it is; and
   after the call vpninfo->urlpath is what it was before *)
C18_LogoutRequestAndPathRestored ==
    /\ pc = "bye_request" => ~vpninfo.https_open
    /\ pc \in {"bye_ret", "bye_done"} =>
          /\ hist.nreq = 1
          /\ hist.req.kind = "logout"
          /\ ~hist.req.https_open
          /\ hist.req.method = "POST"
          /\ hist.req.path = "ssl-vpn/logout.esp"
          /\ hist.req.body = hist.entry.cookie
          /\ vpninfo.urlpath = hist.entry.urlpath
          /\ vpninfo.cookie = hist.entry.cookie
    /\ pc = "gpst_bye" => hist.nreq = 0

(* gpst_bye returned in a session that had its connection open and a path set *)
C18_Witness ==
    /\ pc = "bye_done"
    /\ hist.entry.urlpath = "ssl-vpn/login.esp"
    /\ vpninfo.urlpath = "ssl-vpn/login.esp"
    /\ hist.req.path = "ssl-vpn/logout.esp"
    /\ hist.req.body = "authcookie=x%2fy&user=alice&preferred-ip=10.0.0.5&computer=host-1"
    /\ result = 0

====
